---- MODULE Spec2Model ----
(***************************************************************************)
(* A model of guest.FileManager (guest/file_manager.go): the request       *)
(* forwarding operations and TransferURL with its mutex-guarded host       *)
(* address cache, called concurrently by several goroutines on one         *)
(* FileManager, against a vCenter or ESX endpoint whose VM can migrate:    *)
(* each retrieval of the VM answers with the runtime host of the moment.   *)
(*                                                                         *)
(* Strings that the code takes apart or puts together (URLs, host:port)    *)
(* are sequences of tokens; url.Parse, URL.Hostname, URL.Port and          *)
(* net.JoinHostPort work on those sequences.                               *)
(***************************************************************************)
EXTENDS Integers, Sequences, FiniteSets, TLC

\* ------------------------------------------------------------------ bounds
\* Operations started in one behaviour.
MaxCalls == 2

\* Two goroutines share the FileManager.
Threads == {1, 2}

\* ------------------------------------------------- the remote inventory
Nil == "nil"
HostRefs == {"esx1", "esx2", "esx3"}

\* HostSystem.Name: the inventory name, which the transfer URLs carry.
HostName(h) == h

\* summary.config.sslThumbprint
SslThumbprint(h) ==
    CASE h = "esx1" -> "AA:01"
      [] h = "esx2" -> "BB:02"
      [] OTHER      -> "CC:03"

\* internal.HostSystemManagementIPs(host.Config.VirtualNicManagerInfo.NetConfig),
\* each already rendered by net.IP.String().
HostSystemManagementIPs(h) ==
    CASE h = "esx1" -> <<"fe80::1">>
      [] h = "esx2" -> <<"10.0.0.2", "10.0.1.2">>
      [] OTHER      -> <<>>

\* An address that contains a colon (IPv6): net.JoinHostPort brackets it.
HasColon(a) == a \in {"fe80::1"}

\* ------------------------------------------------------- strings and URLs
NilURL == [Scheme |-> "", Host |-> <<>>, Path |-> ""]

Digits == {"443", "8443"}

\* net.JoinHostPort
JoinHostPort(host, p) ==
    (IF HasColon(host) THEN <<"[", host, "]">> ELSE <<host>>)
        \o <<":">> \o (IF p = "" THEN <<>> ELSE <<p>>)

\* URL.Hostname(): the host without brackets and without the port.
Hostname(host) ==
    IF host = <<>> THEN ""
    ELSE IF host[1] = "[" THEN host[2]
    ELSE host[1]

\* URL.Port(): what follows the last colon, "" when there is none.
Port(host) ==
    IF Len(host) >= 2 /\ host[Len(host) - 1] = ":" THEN host[Len(host)] ELSE ""

\* The host part of a URL string is well formed when an optional port, if
\* present, is numeric (url.Parse's validOptionalPort).
ValidHost(host) ==
    \/ Len(host) = 1
    \/ Len(host) = 2 /\ host[2] = ":"
    \/ Len(host) = 3 /\ host[2] = ":" /\ host[3] \in Digits
    \/ Len(host) = 3 /\ host[1] = "[" /\ host[3] = "]"
    \/ Len(host) = 5 /\ host[1] = "[" /\ host[3] = "]" /\ host[4] = ":"
                     /\ host[5] \in Digits

\* url.Parse(u) for u = scheme "://" host... path: the URL, or NilURL with
\* an error.
ParseURL(s) ==
    LET host == SubSeq(s, 3, Len(s) - 1) IN
    IF Len(s) >= 4 /\ s[2] = "://" /\ ValidHost(host)
    THEN [url |-> [Scheme |-> s[1], Host |-> host, Path |-> s[Len(s)]], err |-> ""]
    ELSE [url |-> NilURL, err |-> "parse"]

URLString(scheme, host, path) == <<scheme, "://">> \o host \o <<path>>

\* m.c.URL().Host: the address this client connected to (a forwarded port).
ClientURLHost == <<"gw", ":", "8443">>

\* The strings callers hand to TransferURL.
InputURLs ==
    { URLString("https", <<"*", ":", "443">>, "/guestFile"),
      URLString("https", <<"esx1", ":", "443">>, "/guestFile"),
      URLString("https", <<"esx1", ":", "8443">>, "/guestFile"),
      URLString("https", <<"esx2", ":", "443">>, "/guestFile"),
      URLString("https", <<"esx1", ":", "port">>, "/guestFile") }

\* ------------------------------------------------------------------ state
VARIABLES
    isVC,               \* m.c.IsVC()
    useGuestTransferIP, \* the package variable read from the environment
    hosts,              \* m.hosts
    thumbprints,        \* the client's known host thumbprints
    mu,                 \* m.mu: the goroutines between Lock() and Unlock()
    pc,                 \* where each goroutine is
    u,                  \* TransferURL's argument
    turl, name, port, mname, ok, \* TransferURL's locals
    rhost,              \* vm.Runtime.Host as retrieved
    ret,                \* what the last operation returned
    eff,                \* what the current call has done so far
    calls               \* operations started

vars == <<isVC, useGuestTransferIP, hosts, thumbprints, mu, pc, u,
          turl, name, port, mname, ok, rhost, ret, eff, calls>>

locals == <<u, turl, name, port, mname, ok, rhost>>
shared == <<hosts, thumbprints, mu>>
env == <<isVC, useGuestTransferIP>>

NoEff == [cache |-> FALSE, thumb |-> FALSE, remote |-> 0]
NoRet == [op |-> "", err |-> "", url |-> NilURL, val |-> <<>>]

Init ==
    /\ isVC \in BOOLEAN
    /\ useGuestTransferIP \in BOOLEAN
    /\ hosts = <<>>
    /\ thumbprints = <<>>
    /\ mu = {}
    /\ pc = [t \in Threads |-> "idle"]
    /\ u = [t \in Threads |-> <<>>]
    /\ turl = [t \in Threads |-> NilURL]
    /\ name = [t \in Threads |-> ""]
    /\ port = [t \in Threads |-> ""]
    /\ mname = [t \in Threads |-> ""]
    /\ ok = [t \in Threads |-> FALSE]
    /\ rhost = [t \in Threads |-> Nil]
    /\ ret = [t \in Threads |-> NoRet]
    /\ eff = [t \in Threads |-> NoEff]
    /\ calls = 0

\* What a step of goroutine t adds to the record of its call: whether it
\* changed the cache or the thumbprints, and its n remote retrievals.
Effects(t, n) ==
    eff' = [eff EXCEPT ![t] = [cache  |-> @.cache \/ hosts' # hosts,
                               thumb  |-> @.thumb \/ thumbprints' # thumbprints,
                               remote |-> @.remote + n]]

CanCall(t) == pc[t] \in {"idle", "done"} /\ calls < MaxCalls

\* return from TransferURL
Return(t, url, err) ==
    /\ pc' = [pc EXCEPT ![t] = "done"]
    /\ ret' = [ret EXCEPT ![t] = [op |-> "TransferURL", err |-> err,
                                  url |-> url, val |-> <<>>]]

\* ------------------------------------------------------------ TransferURL
\* Variant: the placeholder is replaced by the client's hostname, its port lost.
RewritePlaceholderHostnameOnly(url) ==
    IF Hostname(url.Host) = "*"
    THEN [url EXCEPT !.Host = <<Hostname(ClientURLHost)>>]
    ELSE url

\* if turl.Hostname() == "*" { turl.Host = m.c.URL().Host }
RewritePlaceholder(url) ==
    IF Hostname(url.Host) = "*" THEN [url EXCEPT !.Host = ClientURLHost] ELSE url

\* TransferURL up to the first Lock(): parse, replace the placeholder, and
\* return at once on a parse error or on a direct ESX connection.
Call(t, s) ==
    LET p == ParseURL(s)
        t1 == RewritePlaceholder(p.url)
    IN  /\ CanCall(t)
        /\ calls' = calls + 1
        /\ u' = [u EXCEPT ![t] = s]
        /\ mname' = [mname EXCEPT ![t] = ""]
        /\ ok' = [ok EXCEPT ![t] = FALSE]
        /\ rhost' = [rhost EXCEPT ![t] = Nil]
        /\ eff' = [eff EXCEPT ![t] = NoEff]
        /\ IF p.err # ""
           THEN /\ Return(t, NilURL, p.err)
                /\ turl' = [turl EXCEPT ![t] = NilURL]
                /\ name' = [name EXCEPT ![t] = ""]
                /\ port' = [port EXCEPT ![t] = ""]
           ELSE /\ turl' = [turl EXCEPT ![t] = t1]
                /\ IF ~isVC
                   THEN /\ Return(t, t1, "")
                        /\ name' = [name EXCEPT ![t] = ""]
                        /\ port' = [port EXCEPT ![t] = ""]
                   ELSE /\ pc' = [pc EXCEPT ![t] = "lock1"]
                        /\ ret' = [ret EXCEPT ![t] = NoRet]
                        /\ name' = [name EXCEPT ![t] = Hostname(t1.Host)]
                        /\ port' = [port EXCEPT ![t] = Port(t1.Host)]
        /\ UNCHANGED <<env, shared>>

TransferURL(t) == \E s \in InputURLs : Call(t, s)

\* m.mu.Lock() before the lookup
Lock1(t) ==
    /\ pc[t] = "lock1"
    /\ mu = {}
    /\ mu' = mu \cup {t}
    /\ pc' = [pc EXCEPT ![t] = "read"]
    /\ UNCHANGED <<env, hosts, thumbprints, locals, ret, calls>>
    /\ Effects(t, 0)

\* mname, ok := m.hosts[name]
Lookup(t) ==
    /\ pc[t] = "read"
    /\ ok' = [ok EXCEPT ![t] = name[t] \in DOMAIN hosts]
    /\ mname' = [mname EXCEPT ![t] = IF name[t] \in DOMAIN hosts THEN hosts[name[t]] ELSE ""]
    /\ pc' = [pc EXCEPT ![t] = "unlock1"]
    /\ UNCHANGED <<env, shared, u, turl, name, port, rhost, ret, calls>>
    /\ Effects(t, 0)

\* Variant: a cache hit joins the cached address with the default port.
Unlock1DefaultPort(t) ==
    /\ pc[t] = "unlock1"
    /\ mu' = mu \ {t}
    /\ IF ok[t]
       THEN LET h == [turl[t] EXCEPT !.Host = JoinHostPort(mname[t], "443")]
            IN  /\ turl' = [turl EXCEPT ![t] = h]
                /\ Return(t, h, "")
       ELSE /\ pc' = [pc EXCEPT ![t] = "getvm"]
            /\ UNCHANGED <<turl, ret>>
    /\ UNCHANGED <<env, hosts, thumbprints, u, name, port, mname, ok, rhost, calls>>
    /\ Effects(t, 0)

\* Variant: a cache miss goes on to the retrievals without Unlock().
Unlock1KeepingMutex(t) ==
    /\ pc[t] = "unlock1"
    /\ IF ok[t]
       THEN LET h == [turl[t] EXCEPT !.Host = JoinHostPort(mname[t], port[t])]
            IN  /\ turl' = [turl EXCEPT ![t] = h]
                /\ mu' = mu \ {t}
                /\ Return(t, h, "")
       ELSE /\ pc' = [pc EXCEPT ![t] = "getvm"]
            /\ UNCHANGED <<turl, ret, mu>>
    /\ UNCHANGED <<env, hosts, thumbprints, u, name, port, mname, ok, rhost, calls>>
    /\ Effects(t, 0)

\* m.mu.Unlock(), then the cache hit: rewrite the host and return.
Unlock1(t) ==
    /\ pc[t] = "unlock1"
    /\ mu' = mu \ {t}
    /\ IF ok[t]
       THEN LET h == [turl[t] EXCEPT !.Host = JoinHostPort(mname[t], port[t])]
            IN  /\ turl' = [turl EXCEPT ![t] = h]
                /\ Return(t, h, "")
       ELSE /\ pc' = [pc EXCEPT ![t] = "getvm"]
            /\ UNCHANGED <<turl, ret>>
    /\ UNCHANGED <<env, hosts, thumbprints, u, name, port, mname, ok, rhost, calls>>
    /\ Effects(t, 0)

\* c.RetrieveOne(ctx, m.vm, {"name", "runtime.host"}, &vm): it fails, or
\* answers with the runtime host the VM has at that moment (any host, or
\* none); without a runtime host TransferURL returns the URL as it stands.
RetrieveVM(t) ==
    /\ pc[t] = "getvm"
    /\ \/ /\ Return(t, NilURL, "vm")
          /\ UNCHANGED rhost
       \/ \E h \in HostRefs \cup {Nil} :
            /\ rhost' = [rhost EXCEPT ![t] = h]
            /\ IF h = Nil
               THEN Return(t, turl[t], "")
               ELSE /\ pc' = [pc EXCEPT ![t] = "gethost"]
                    /\ UNCHANGED ret
    /\ UNCHANGED <<env, shared, u, turl, name, port, mname, ok, calls>>
    /\ Effects(t, 1)

\* Variant: the first management IP is preferred whenever there is one.
PreferFirstManagementIP(ips) == Len(ips) >= 1 /\ useGuestTransferIP

\* if len(ips) == 1 && useGuestTransferIP
PreferManagementIP(ips) == Len(ips) = 1 /\ useGuestTransferIP

\* Variant: the host's thumbprint is registered before host.Config is checked.
RetrieveHostTrustingBeforeConfigCheck(t) ==
    /\ pc[t] = "gethost"
    /\ \/ /\ Return(t, NilURL, "host")
          /\ rhost' = [rhost EXCEPT ![t] = Nil]
          /\ UNCHANGED <<mname, thumbprints>>
       \/ /\ Return(t, NilURL, "confignil")
          /\ thumbprints' = (JoinHostPort(name[t], port[t]) :> SslThumbprint(rhost[t]))
                                @@ thumbprints
          /\ rhost' = [rhost EXCEPT ![t] = Nil]
          /\ UNCHANGED mname
       \/ /\ LET ips == HostSystemManagementIPs(rhost[t])
             IN  IF Len(ips) = 1 /\ useGuestTransferIP
                 THEN /\ mname' = [mname EXCEPT ![t] = ips[1]]
                      /\ pc' = [pc EXCEPT ![t] = "lock2"]
                 ELSE /\ pc' = [pc EXCEPT ![t] = "setthumb"]
                      /\ UNCHANGED mname
          /\ UNCHANGED <<rhost, ret, thumbprints>>
    /\ UNCHANGED <<env, hosts, mu, u, turl, name, port, ok, calls>>
    /\ Effects(t, 1)

\* c.RetrieveOne(ctx, *vm.Runtime.Host, props, &host): it fails, or answers
\* without a config (an error), or with the host's properties; then the
\* choice between the host's one management IP and the name as it is.
\* (vm and host are dead once TransferURL returns an error.)
RetrieveHost(t) ==
    /\ pc[t] = "gethost"
    /\ \/ /\ Return(t, NilURL, "host")
          /\ rhost' = [rhost EXCEPT ![t] = Nil]
          /\ UNCHANGED mname
       \/ /\ Return(t, NilURL, "confignil")
          /\ rhost' = [rhost EXCEPT ![t] = Nil]
          /\ UNCHANGED mname
       \/ /\ LET ips == HostSystemManagementIPs(rhost[t])
             IN  IF PreferManagementIP(ips)
                 THEN /\ mname' = [mname EXCEPT ![t] = ips[1]]
                      /\ pc' = [pc EXCEPT ![t] = "lock2"]
                 ELSE /\ pc' = [pc EXCEPT ![t] = "setthumb"]
                      /\ UNCHANGED mname
          /\ UNCHANGED <<rhost, ret>>
    /\ UNCHANGED <<env, shared, u, turl, name, port, ok, calls>>
    /\ Effects(t, 1)

\* Variant: the insert is not preceded by Lock().
Lock2Missing(t) ==
    /\ pc[t] = "lock2"
    /\ pc' = [pc EXCEPT ![t] = "write"]
    /\ UNCHANGED <<env, hosts, thumbprints, mu, locals, ret, calls>>
    /\ Effects(t, 0)

\* m.mu.Lock() before the insert
Lock2(t) ==
    /\ pc[t] = "lock2"
    /\ mu = {}
    /\ mu' = mu \cup {t}
    /\ pc' = [pc EXCEPT ![t] = "write"]
    /\ UNCHANGED <<env, hosts, thumbprints, locals, ret, calls>>
    /\ Effects(t, 0)

\* Variant: the insert replaces the map by one holding the new entry alone.
InsertIntoFreshMap(t) ==
    /\ pc[t] = "write"
    /\ hosts' = (name[t] :> mname[t])
    /\ pc' = [pc EXCEPT ![t] = "unlock2"]
    /\ UNCHANGED <<env, thumbprints, mu, locals, ret, calls>>
    /\ Effects(t, 0)

\* m.hosts[name] = mname
Insert(t) ==
    /\ pc[t] = "write"
    /\ hosts' = (name[t] :> mname[t]) @@ hosts
    /\ pc' = [pc EXCEPT ![t] = "unlock2"]
    /\ UNCHANGED <<env, thumbprints, mu, locals, ret, calls>>
    /\ Effects(t, 0)

\* m.mu.Unlock(); name = mname
Unlock2(t) ==
    /\ pc[t] = "unlock2"
    /\ mu' = mu \ {t}
    /\ name' = [name EXCEPT ![t] = mname[t]]
    /\ pc' = [pc EXCEPT ![t] = "setthumb"]
    /\ UNCHANGED <<env, hosts, thumbprints, u, turl, port, mname, ok, rhost, ret, calls>>
    /\ Effects(t, 0)

\* vim25.Client.SetThumbprint(host, thumbprint)
SetThumbprint(host, thumbprint) ==
    thumbprints' = (host :> thumbprint) @@ thumbprints

\* turl.Host = net.JoinHostPort(name, port);
\* m.c.SetThumbprint(turl.Host, host.Summary.Config.SslThumbprint); return
Finish(t) ==
    /\ pc[t] = "setthumb"
    /\ LET h == [turl[t] EXCEPT !.Host = JoinHostPort(name[t], port[t])]
       IN  /\ turl' = [turl EXCEPT ![t] = h]
           /\ SetThumbprint(h.Host, SslThumbprint(rhost[t]))
           /\ Return(t, h, "")
    /\ UNCHANGED <<env, hosts, mu, u, name, port, mname, ok, rhost, calls>>
    /\ Effects(t, 0)

\* ------------------------------------------------ the forwarding operations
\* Variant: a fault resets the host address cache.
InvokeDroppingCacheOnFault(t, vals) ==
    /\ CanCall(t)
    /\ calls' = calls + 1
    /\ pc' = [pc EXCEPT ![t] = "done"]
    /\ eff' = [eff EXCEPT ![t] = [NoEff EXCEPT !.remote = 1]]
    /\ \/ /\ \E v \in vals :
                ret' = [ret EXCEPT ![t] = [op |-> "Invoke", err |-> "",
                                           url |-> NilURL, val |-> v]]
          /\ UNCHANGED hosts
       \/ /\ ret' = [ret EXCEPT ![t] = [op |-> "Invoke", err |-> "fault",
                                        url |-> NilURL, val |-> <<>>]]
          /\ hosts' = <<>>
    /\ UNCHANGED <<env, thumbprints, mu, locals>>

\* req := ...; res, err := methods.X(ctx, m.c, &req): one round trip that
\* answers with one of vals, or fails with a fault and no value.
Invoke(t, vals) ==
    /\ CanCall(t)
    /\ calls' = calls + 1
    /\ pc' = [pc EXCEPT ![t] = "done"]
    /\ eff' = [eff EXCEPT ![t] = [NoEff EXCEPT !.remote = 1]]
    /\ \/ \E v \in vals :
            ret' = [ret EXCEPT ![t] = [op |-> "Invoke", err |-> "",
                                       url |-> NilURL, val |-> v]]
       \/ ret' = [ret EXCEPT ![t] = [op |-> "Invoke", err |-> "fault",
                                     url |-> NilURL, val |-> <<>>]]
    /\ UNCHANGED <<env, shared, locals>>

\* The URLs the remote side issues for a transfer: host "*" from ESX, the
\* name of the VM's runtime host of the moment from vCenter.
IssuedURLs ==
    { URLString("https", <<n, ":", "443">>, "/guestFile") :
        n \in IF isVC THEN { HostName(h) : h \in HostRefs } ELSE {"*"} }

ChangeFileAttributes(t) == Invoke(t, {<<>>})

CreateTemporaryDirectory(t) == Invoke(t, {<<"/tmp/d">>})

CreateTemporaryFile(t) == Invoke(t, {<<"/tmp/f">>})

DeleteDirectory(t) == Invoke(t, {<<>>})

DeleteFile(t) == Invoke(t, {<<>>})

InitiateFileTransferFromGuest(t) == Invoke(t, IssuedURLs)

InitiateFileTransferToGuest(t) == Invoke(t, IssuedURLs)

ListFiles(t) == Invoke(t, {<<"f1", "f2">>})

MakeDirectory(t) == Invoke(t, {<<>>})

MoveDirectory(t) == Invoke(t, {<<>>})

MoveFile(t) == Invoke(t, {<<>>})

\* ------------------------------------------------------- the specification
Step(t) ==
    \/ TransferURL(t)
    \/ Lock1(t)
    \/ Lookup(t)
    \/ Unlock1(t)
    \/ RetrieveVM(t)
    \/ RetrieveHost(t)
    \/ Lock2(t)
    \/ Insert(t)
    \/ Unlock2(t)
    \/ Finish(t)

Forward(t) ==
    \/ ChangeFileAttributes(t)
    \/ CreateTemporaryDirectory(t)
    \/ CreateTemporaryFile(t)
    \/ DeleteDirectory(t)
    \/ DeleteFile(t)
    \/ InitiateFileTransferFromGuest(t)
    \/ InitiateFileTransferToGuest(t)
    \/ ListFiles(t)
    \/ MakeDirectory(t)
    \/ MoveDirectory(t)
    \/ MoveFile(t)

Next ==
    \/ \E t \in Threads : Step(t)
    \/ \E t \in Threads : Forward(t)

Spec == Init /\ [][Next]_vars

\* Goroutines are scheduled fairly, a free mutex is handed to a waiter, and
\* the remote side answers every retrieval (with a result or an error).
Running(t) ==
    \/ Lock1(t)
    \/ Lookup(t)
    \/ Unlock1(t)
    \/ RetrieveVM(t)
    \/ RetrieveHost(t)
    \/ Lock2(t)
    \/ Insert(t)
    \/ Unlock2(t)
    \/ Finish(t)

FairSpec == Spec /\ \A t \in Threads : WF_vars(Running(t))

\* ================================================================ claims
In(t) == ParseURL(u[t]).url

Returned(t) == pc[t] = "done" /\ ret[t].op = "TransferURL"

Succeeded(t) == Returned(t) /\ ret[t].err = ""

\* The step in which goroutine t's TransferURL returns.
Returns(t) == pc[t] \notin {"idle", "done"} /\ pc'[t] = "done"

Quiet(t) == \A o \in Threads \ {t} : pc[o] \in {"idle", "done"}

\* C1: when a TransferURL call on a vCenter connection returns a URL, with
\* no other call in flight, having found the VM's runtime host or the
\* cached address, the client holds a thumbprint for exactly the returned
\* Host, and it is the sslThumbprint of the runtime host the call found.
C1_ThumbprintForReturnedHost ==
    [][\A t \in Threads :
          (/\ Returns(t) /\ Quiet(t) /\ isVC /\ ret'[t].err = ""
           /\ (rhost'[t] # Nil \/ ok'[t]))
              => /\ ret'[t].url.Host \in DOMAIN thumbprints'
                 /\ rhost'[t] # Nil =>
                        thumbprints'[ret'[t].url.Host] = SslThumbprint(rhost'[t])]_vars

\* C2: for every host of the inventory, a cache entry under its name (the
\* hostname of a transfer URL issued while the VM ran on it) holds that
\* host's single management IP.
C2_CacheHoldsTheNamedHostsIP ==
    \A h \in HostRefs :
        HostName(h) \in DOMAIN hosts
            => HostSystemManagementIPs(h) = <<hosts[HostName(h)]>>

\* C3: a hostname that is a key of the cache stays one: no step removes a
\* key.
C3_CacheKeysOnlyGrow == [][DOMAIN hosts \subseteq DOMAIN hosts']_vars

C3_Witness == Cardinality(DOMAIN hosts) = 2

\* C4: a step in which one of the forwarding operations is called and
\* answers (with a value or a fault) leaves the host address cache and the
\* client's thumbprints as they were.
C4_ForwardingLeavesLocalStateAlone ==
    [][\A t \in Threads :
          (/\ calls' = calls + 1
           /\ pc'[t] = "done"
           /\ ret'[t].op = "Invoke"
           /\ \A o \in Threads \ {t} : pc'[o] = pc[o] /\ ret'[o] = ret[o])
              => hosts' = hosts /\ thumbprints' = thumbprints]_vars

C4_Witness ==
    \E t \in Threads :
        /\ pc[t] = "done" /\ ret[t].op = "Invoke" /\ ret[t].err = "fault"
        /\ DOMAIN hosts # {}
        /\ DOMAIN thumbprints # {}

\* C5: a TransferURL call that succeeds on a URL whose hostname is "*"
\* returns a URL whose hostname is not "*"; on a direct ESX connection the
\* returned Host is the client's URL host with the client's port, and the
\* scheme and the path are those of the input.
C5_PlaceholderIsReplaced ==
    \A t \in Threads :
        (Succeeded(t) /\ Hostname(In(t).Host) = "*")
            => /\ Hostname(ret[t].url.Host) # "*"
               /\ ~isVC => /\ ret[t].url.Host = ClientURLHost
                           /\ ret[t].url.Scheme = In(t).Scheme
                           /\ ret[t].url.Path = In(t).Path

C5_Witness ==
    \E t \in Threads :
        Succeeded(t) /\ Hostname(In(t).Host) = "*" /\ ~isVC

\* C6: at most one goroutine holds the mutex, and a goroutine that reads or
\* writes the hosts map is the one that holds it.
C6_MapAccessUnderMutex ==
    /\ Cardinality(mu) <= 1
    /\ \A t \in Threads : pc[t] \in {"read", "write"} => mu = {t}

C6_Witness ==
    \E t, o \in Threads : pc[t] = "write" /\ pc[o] = "lock1"

\* A successful call that retrieved the VM's host and did not prefer a
\* management IP: the host has no or several, or the preference is off.
KeptName(t) ==
    /\ Succeeded(t) /\ isVC /\ rhost[t] # Nil
    /\ ~(Len(HostSystemManagementIPs(rhost[t])) = 1 /\ useGuestTransferIP)

\* Only a call on vCenter that missed the cache, retrieved the VM and a host
\* with exactly one management IP, with the preference on, inserts.
InsertsOnlyWhenUnambiguous ==
    hosts' # hosts =>
        \E t \in Threads :
            /\ pc[t] = "write" /\ pc'[t] # "write"
            /\ isVC /\ useGuestTransferIP
            /\ ~ok[t] /\ eff[t].remote = 2 /\ rhost[t] # Nil
            /\ Len(HostSystemManagementIPs(rhost[t])) = 1

\* C7 as stated: inserts happen only for an unambiguous management address;
\* a call that kept the name leaves the cache alone and returns the input
\* URL's hostname and port; with the preference off the cache stays empty.
C7_KeepsInputHostnameAndPort ==
    /\ [][InsertsOnlyWhenUnambiguous]_vars
    /\ [](\A t \in Threads :
             KeptName(t) => /\ ~eff[t].cache
                            /\ Hostname(ret[t].url.Host) = Hostname(In(t).Host)
                            /\ Port(ret[t].url.Host) = Port(In(t).Host))
    /\ [](~useGuestTransferIP => DOMAIN hosts = {})

\* C7, amended: as above, but the hostname and port returned are those the
\* URL has once the placeholder "*" has been replaced by the client's URL
\* host (those of the input when its hostname is not "*").
C7_KeepsHostnameAndPortAfterPlaceholder ==
    /\ [][InsertsOnlyWhenUnambiguous]_vars
    /\ [](\A t \in Threads :
             KeptName(t) =>
                 LET x == RewritePlaceholder(In(t))
                 IN  /\ ~eff[t].cache
                     /\ Hostname(ret[t].url.Host) = Hostname(x.Host)
                     /\ Port(ret[t].url.Host) = Port(x.Host)
                     /\ Hostname(In(t).Host) # "*" => x = In(t))
    /\ [](~useGuestTransferIP => DOMAIN hosts = {})

C7_Witness ==
    \E t, o \in Threads :
        /\ KeptName(t) /\ Len(HostSystemManagementIPs(rhost[t])) = 2
        /\ useGuestTransferIP
        /\ KeptName(o) /\ Len(HostSystemManagementIPs(rhost[o])) = 0

C9_ErrorsLeaveStateUnchanged ==
    \A t \in Threads :
        (Returned(t) /\ ret[t].err # "")
            => /\ ret[t].url = NilURL
               /\ ~eff[t].cache
               /\ ~eff[t].thumb

C9_Witness ==
    \E t \in Threads :
        /\ Returned(t) /\ ret[t].err = "confignil"
        /\ DOMAIN hosts # {}

\* C10: a goroutine that waits for a remote retrieval, or is outside a
\* TransferURL call, does not hold the mutex; and every TransferURL call
\* that has started returns.
C10_MutexNotHeldAcrossRemoteCalls ==
    /\ [](\A t \in Threads :
             pc[t] \in {"idle", "getvm", "gethost", "done"} => t \notin mu)
    /\ \A t \in Threads : (pc[t] \notin {"idle", "done"}) ~> (pc[t] = "done")

C10_Witness ==
    \E t, o \in Threads : pc[t] = "gethost" /\ pc[o] = "write" /\ mu = {o}

====
